---- MODULE Spec2Model ----
(***************************************************************************)
(* Model of the thelio-io Windows service (src/src/main.rs): service_main  *)
(* calls driver, which classifies the hardware, discovers the Thelio Io    *)
(* boards, spawns the sensor wrapper subprocess and runs driver_loop.      *)
(*                                                                         *)
(* A temperature is an f64: a NaN, an infinity or a finite binary number   *)
(* with a mantissa of at most 53 digits.  The text of a line is parsed to  *)
(* the nearest f64, the product with 100.0 is rounded to the nearest f64   *)
(* (ties to even) and `as i16` cuts the fraction and saturates, as the     *)
(* program does.  A line is the sequence of the code points of its chars.  *)
(***************************************************************************)
EXTENDS Integers, Sequences, FiniteSets, TLC

VARIABLES
    pc,              \* position of the service thread
    sys_vendor,      \* driver: SMBIOS manufacturer
    product_version, \* driver: SMBIOS version
    curve,           \* driver: the selected FanCurve, its breakpoints (<<>> before selection)
    ports,           \* driver: the not yet visited part of available_ports()
    ios,             \* driver: Vec<Io>, the port names of the opened boards
    fan,             \* the boards: fan[i][channel] is the duty the board i applies
    wrapper,         \* the sensor subprocess: "none", "running", "exited", "killed"
    wrapper_in,      \* bytes written to the subprocess' stdin and not yet consumed
    wrapper_out,     \* lines written by the subprocess and not yet read
    recent_temps,    \* driver_loop: the ring buffer
    recent_temps_i,  \* driver_loop: the ring buffer index
    line,            \* driver_loop: the line read in this cycle
    read_temp,       \* driver_loop: the parsed sample of this cycle
    temp,            \* driver_loop: the maximum of the ring buffer
    duty,            \* driver_loop: the result of curve.get_duty, <<>> or <<d>>
    io_i,            \* driver_loop: position in ios (outer for loop)
    dev_i,           \* driver_loop: position in the channel list (inner for loop)
    res,             \* the io::Result of driver ("none" while it runs)
    logged,          \* service_main: whether the error has been logged
    exit_code,       \* the process exit code (-1 while the process runs)
    enumerated,      \* history: whether serialport::available_ports() was called
    cycle,           \* history: number of loop iterations started
    sleeps,          \* history: number of sleep(POLLING_DELAY) calls
    produced,        \* history: the lines the subprocess has written
    samples,         \* history: the samples pushed into the ring buffer
    smoothed,        \* history: the maxima computed, one per cycle that got there
    duties,          \* history: the results of get_duty, one per cycle likewise
    writes,          \* history: the set_duty calls issued
    pipe_log         \* history: the write_all and read_line calls that returned Ok

vars == <<pc, sys_vendor, product_version, curve, ports, ios, fan, wrapper,
          wrapper_in, wrapper_out, recent_temps, recent_temps_i, line,
          read_temp, temp, duty, io_i, dev_i, res, logged, exit_code,
          enumerated, cycle, sleeps, produced, samples, smoothed, duties,
          writes, pipe_log>>

----------------------------------------------------------------------------
(* Bounds of the model *)

MaxCycles == 4   \* loop iterations explored
MaxPorts == 2    \* serial ports reported by available_ports()
MaxPoints == 3   \* breakpoints of a table of CurveSpec

----------------------------------------------------------------------------
(* Constants of the program *)

POLLING_DELAY == 1
SPIN_DOWN_DELAY == 3
I16_MIN == -32768
I16_MAX == 32767
THELIO_VID == 4617   \* 0x1209
THELIO_PID == 6006   \* 0x1776
UNSET == -1          \* duty of a channel that was never written since reset

Min2(a, b) == IF a <= b THEN a ELSE b
Max2(a, b) == IF a >= b THEN a ELSE b

----------------------------------------------------------------------------
(* Natural numbers of any size: the limbs in base 2^15, the lowest first,   *)
(* without zero limbs at the top; zero is the empty sequence.  The          *)
(* operators walk the limbs by halving the range, so that the depth of the  *)
(* evaluation stays logarithmic in the size of the number.                  *)

\* F applied to the value of v, which is computed once
Let(v, F(_)) == CHOOSE r \in {F(x) : x \in {v}} : TRUE

Base == 32768
LimbBits == 15

RECURSIVE BFromInt(_)
BFromInt(n) == IF n = 0 THEN <<>> ELSE <<n % Base>> \o BFromInt(n \div Base)

RECURSIVE BToInt(_)
BToInt(a) == IF a = <<>> THEN 0 ELSE a[1] + Base * BToInt(Tail(a))

\* a without the zero limbs at its top
BNorm(a) ==
    IF \A i \in 1..Len(a) : a[i] = 0 THEN <<>>
    ELSE SubSeq(a, 1, CHOOSE i \in 1..Len(a) :
                        a[i] # 0 /\ \A j \in (i + 1)..Len(a) : a[j] = 0)

\* the limbs lo..hi of a * c + carry and the carry out of them
RECURSIVE MulScan(_, _, _, _, _)
MulScan(a, c, lo, hi, carry) ==
    IF lo = hi
    THEN Let(a[lo] * c + carry,
             LAMBDA t : [out |-> <<t % Base>>, carry |-> t \div Base])
    ELSE Let((lo + hi) \div 2, LAMBDA mid :
         Let(MulScan(a, c, lo, mid, carry), LAMBDA L :
         Let(MulScan(a, c, mid + 1, hi, L.carry), LAMBDA H :
             [out |-> L.out \o H.out, carry |-> H.carry])))

\* a * c + carry, for 0 < c <= Base and carry < Base
BMulSmall(a, c, carry) ==
    IF a = <<>> THEN BFromInt(carry)
    ELSE Let(MulScan(a, c, 1, Len(a), carry),
             LAMBDA r : r.out \o BFromInt(r.carry))

\* a + c
BAddSmall(a, c) == BMulSmall(a, 1, c)

\* the limbs lo..hi of the quotient of a by c, from the top, and the
\* remainder below them
RECURSIVE DivScan(_, _, _, _, _)
DivScan(a, c, lo, hi, rem) ==
    IF lo = hi
    THEN Let(rem * Base + a[lo],
             LAMBDA t : [out |-> <<t \div c>>, rem |-> t % c])
    ELSE Let((lo + hi) \div 2, LAMBDA mid :
         Let(DivScan(a, c, mid + 1, hi, rem), LAMBDA H :
         Let(DivScan(a, c, lo, mid, H.rem), LAMBDA L :
             [out |-> L.out \o H.out, rem |-> L.rem])))

\* the quotient and the remainder of a by c, for 0 < c <= Base
BDivSmall(a, c) ==
    IF a = <<>> THEN [q |-> <<>>, r |-> 0]
    ELSE Let(DivScan(a, c, 1, Len(a), 0),
             LAMBDA d : [q |-> BNorm(d.out), r |-> d.rem])

RECURSIVE BitLenSmall(_)
BitLenSmall(n) == IF n = 0 THEN 0 ELSE 1 + BitLenSmall(n \div 2)

\* the number of binary digits
BBitLen(a) ==
    IF a = <<>> THEN 0
    ELSE LimbBits * (Len(a) - 1) + BitLenSmall(a[Len(a)])

BIsOdd(a) == a # <<>> /\ a[1] % 2 = 1

\* a * 2^k
BShl(a, k) ==
    IF a = <<>> THEN <<>>
    ELSE [i \in 1..(k \div LimbBits) |-> 0] \o BMulSmall(a, 2^(k % LimbBits), 0)

\* a \div 2^k, and whether a binary digit that is 1 was cut off
BShr(a, k) ==
    Let(k \div LimbBits, LAMBDA d :
        IF d >= Len(a) THEN [q |-> <<>>, sticky |-> a # <<>>]
        ELSE Let(SubSeq(a, d + 1, Len(a)), LAMBDA top :
             Let(BDivSmall(top, 2^(k % LimbBits)), LAMBDA dv :
                 [q |-> dv.q,
                  sticky |-> dv.r # 0 \/ \E i \in 1..d : a[i] # 0])))

\* -1, 0, 1 as a is below, equal to, above b
BCmp(a, b) ==
    IF Len(a) < Len(b) THEN -1
    ELSE IF Len(a) > Len(b) THEN 1
    ELSE IF \A i \in 1..Len(a) : a[i] = b[i] THEN 0
    ELSE Let(CHOOSE i \in 1..Len(a) :
                 a[i] # b[i] /\ \A j \in (i + 1)..Len(a) : a[j] = b[j],
             LAMBDA i : IF a[i] < b[i] THEN -1 ELSE 1)

\* a * 5^n
RECURSIVE BMulPow5(_, _)
BMulPow5(a, n) ==
    IF n <= 6 THEN BMulSmall(a, 5^n, 0)
    ELSE Let(BMulPow5(a, n \div 2), LAMBDA h : BMulPow5(h, n - n \div 2))

\* a \div 5^n, and whether a division left a remainder
RECURSIVE BDivPow5(_, _, _)
BDivPow5(a, n, sticky) ==
    IF n <= 6
    THEN Let(BDivSmall(a, 5^n),
             LAMBDA d : [q |-> d.q, sticky |-> sticky \/ d.r # 0])
    ELSE Let(BDivPow5(a, n \div 2, sticky),
             LAMBDA h : BDivPow5(h.q, n - n \div 2, h.sticky))

----------------------------------------------------------------------------
(* f64: a NaN, an infinity, or the finite number (-1)^neg * m * 2^e with m  *)
(* odd (m is zero and e is 0 for the two zeros)                              *)

F64(cls, neg, m, e) == [cls |-> cls, neg |-> neg, m |-> m, e |-> e]

NaN == F64("nan", FALSE, <<>>, 0)
Infinity == F64("inf", FALSE, <<>>, 0)
NegInfinity == F64("inf", TRUE, <<>>, 0)
Zero == F64("fin", FALSE, <<>>, 0)

\* the number of binary digits that are zero at the low end of m, m not zero
TrailingZeros(m) ==
    Let(CHOOSE i \in 1..Len(m) : m[i] # 0 /\ \A j \in 1..(i - 1) : m[j] = 0,
        LAMBDA i :
            LimbBits * (i - 1)
              + (CHOOSE z \in 0..(LimbBits - 1) :
                     m[i] % 2^z = 0 /\ (m[i] \div 2^z) % 2 = 1))

\* (-1)^neg * m * 2^e with the zero digits at the low end of m moved to e
Canon(neg, m, e) ==
    IF m = <<>> THEN F64("fin", neg, <<>>, 0)
    ELSE IF BIsOdd(m) THEN F64("fin", neg, m, e)
    ELSE Let(TrailingZeros(m),
             LAMBDA z : F64("fin", neg, BShr(m, z).q, e + z))

\* the f64 nearest to (q + f) * 2^e0, where 0 <= f < 1 and f > 0 exactly if
\* sticky: 53 binary digits, fewer below 2^-1022, ties to even, an infinity
\* from 2^1024 on; sticky only with 55 digits or more in q
RoundF64(neg, q, sticky, e0) ==
    Let(Max2(Max2(BBitLen(q) - 53, -1074 - e0), 0), LAMBDA s :
        IF s = 0
        THEN IF BBitLen(q) + e0 > 1024 THEN F64("inf", neg, <<>>, 0)
             ELSE Canon(neg, q, e0)
        ELSE Let(BShr(q, s - 1), LAMBDA sh :
             Let(BDivSmall(sh.q, 2).q, LAMBDA half :
             Let(IF BIsOdd(sh.q) /\ (sticky \/ sh.sticky \/ BIsOdd(half))
                 THEN BAddSmall(half, 1) ELSE half, LAMBDA m :
                 IF BBitLen(m) + e0 + s > 1024 THEN F64("inf", neg, <<>>, 0)
                 ELSE Canon(neg, m, e0 + s)))))

\* the f64 nearest to D * 10^E
FromDecimal(neg, D, E) ==
    IF D = <<>> THEN F64("fin", neg, <<>>, 0)
    ELSE IF E >= 0
    THEN IF E > 310 THEN F64("inf", neg, <<>>, 0)
         ELSE Let(BMulPow5(D, E), LAMBDA q : RoundF64(neg, q, FALSE, E))
    ELSE IF (BBitLen(D) \div 3) + 1 + E < -330 THEN F64("fin", neg, <<>>, 0)
    ELSE Let(Max2(0, 58 - BBitLen(D) + ((7 * (-E)) \div 3)), LAMBDA k :
         Let(BShl(D, k), LAMBDA num :
         Let(BDivPow5(num, -E, FALSE), LAMBDA dv :
             RoundF64(neg, dv.q, dv.sticky, E - k))))

\* the f64 nearest to n / 100
Dec(n) == FromDecimal(n < 0, BFromInt(IF n < 0 THEN -n ELSE n), -2)

----------------------------------------------------------------------------
(* The ring buffer of driver_loop *)

\* f32 division followed by ceil, on whole seconds
CeilDiv(a, b) == IF a % b = 0 THEN a \div b ELSE (a \div b) + 1

points_in_spin_down == CeilDiv(SPIN_DOWN_DELAY, POLLING_DELAY)

\* the buffer initialised to the lowest value instead of zero
InitialTempsLowest == [i \in 1..points_in_spin_down |-> NegInfinity]

\* vec![0.0; points_in_spin_down]
InitialTemps == [i \in 1..points_in_spin_down |-> Zero]

\* the index wraps one slot early
NextIndexShort(i) == (i + 1) % (points_in_spin_down - 1)

\* (recent_temps_i + 1) % points_in_spin_down; indices are 0-based as in the code
NextIndex(i) == (i + 1) % points_in_spin_down

\* the sample is not stored
StoreDropped(buf, i, v) == buf

\* a queue instead of a ring: the slots move down and the sample goes last
StoreShifted(buf, i, v) == Append(Tail(buf), v)

\* recent_temps[recent_temps_i] = read_temp
Store(buf, i, v) == [buf EXCEPT ![i + 1] = v]

----------------------------------------------------------------------------
(* Text: a str is the sequence of the code points of its chars *)

\* char::is_whitespace: the characters with the property White_Space
Whitespace ==
    (9..13) \cup {32, 133, 160, 5760} \cup (8192..8202)
      \cup {8232, 8233, 8239, 8287, 12288}

Digits == 48..57

DigitVal(c) == c - 48

\* str::trim_start
TrimStart(s) ==
    IF \A i \in 1..Len(s) : s[i] \in Whitespace THEN <<>>
    ELSE SubSeq(s, CHOOSE i \in 1..Len(s) :
                      s[i] \notin Whitespace
                        /\ \A j \in 1..(i - 1) : s[j] \in Whitespace,
                Len(s))

\* str::trim_end
TrimEnd(s) ==
    IF \A i \in 1..Len(s) : s[i] \in Whitespace THEN <<>>
    ELSE SubSeq(s, 1, CHOOSE i \in 1..Len(s) :
                         s[i] \notin Whitespace
                           /\ \A j \in (i + 1)..Len(s) : s[j] \in Whitespace)

\* str::trim
Trim(s) == TrimEnd(TrimStart(s))

AllDigits(s) == \A i \in 1..Len(s) : s[i] \in Digits

\* the number written by at most four digits
RECURSIVE SmallValue(_, _, _)
SmallValue(s, lo, hi) ==
    IF lo > hi THEN 0 ELSE 10 * SmallValue(s, lo, hi - 1) + DigitVal(s[hi])

\* acc followed by the digits lo..hi of s
RECURSIVE DigitsFold(_, _, _, _)
DigitsFold(s, lo, hi, acc) ==
    IF hi - lo < 4
    THEN IF lo > hi THEN acc
         ELSE BMulSmall(acc, 10^(hi - lo + 1), SmallValue(s, lo, hi))
    ELSE Let((lo + hi) \div 2, LAMBDA mid :
         Let(DigitsFold(s, lo, mid, acc), LAMBDA h :
             DigitsFold(s, mid + 1, hi, h)))

\* the number written by a sequence of digits
DigitsValue(s) == DigitsFold(s, 1, Len(s), <<>>)

\* the exponent after the digits from position i on: a digit is added only
\* while the exponent is below 65536
RECURSIVE ExpFold(_, _, _)
ExpFold(s, i, exponent) ==
    IF i > Len(s) \/ exponent >= 65536 THEN exponent
    ELSE ExpFold(s, i + 1, 10 * exponent + DigitVal(s[i]))

\* the exponent that the digits of an exponent give; leading zeros leave it 0
ExpValue(s) ==
    IF \A i \in 1..Len(s) : s[i] = 48 THEN 0
    ELSE Let(CHOOSE i \in 1..Len(s) :
                 s[i] # 48 /\ \A j \in 1..(i - 1) : s[j] = 48,
             LAMBDA i : ExpFold(s, i, 0))

\* u8::to_ascii_lowercase
LowerChar(c) == IF c \in 65..90 THEN c + 32 ELSE c

Lower(s) == [i \in 1..Len(s) |-> LowerChar(s[i])]

\* the first position of s that holds a character of C, Len(s) + 1 if none
FirstOf(s, C) ==
    IF \A i \in 1..Len(s) : s[i] \notin C THEN Len(s) + 1
    ELSE CHOOSE i \in 1..Len(s) :
             s[i] \in C /\ \A j \in 1..(i - 1) : s[j] \notin C

\* the digits before and after the point of a mantissa and the signed digits
\* of the exponent, as the decimal D * 10^E; <<>> when the digits are missing
DecimalOf(ip, fp, hasexp, ex) ==
    Let(IF ex # <<>> /\ Head(ex) \in {43, 45} THEN Tail(ex) ELSE ex,
        LAMBDA exdig :
            IF /\ AllDigits(ip) /\ AllDigits(fp) /\ Len(ip) + Len(fp) >= 1
               /\ hasexp => exdig # <<>> /\ AllDigits(exdig)
            THEN Let(ip \o fp, LAMBDA ds :
                     <<[D |-> DigitsValue(ds),
                        E |-> (IF ex # <<>> /\ Head(ex) = 45
                               THEN -ExpValue(exdig) ELSE ExpValue(exdig))
                                - Len(fp)]>>)
            ELSE <<>>)

\* Number ::= ( Digit+ | Digit+ '.' Digit* | Digit* '.' Digit+ ) Exp?
\* Exp ::= 'e' Sign? Digit+ (the letter in either case)
\* <<>> when s is no Number, else the digits D and the exponent E of D * 10^E
ParseDecimal(s) ==
    Let(FirstOf(s, {101, 69}), LAMBDA x :
    Let(SubSeq(s, 1, x - 1), LAMBDA mant :
    Let(FirstOf(mant, {46}), LAMBDA d :
    Let(SubSeq(mant, 1, d - 1), LAMBDA ip :
    Let(SubSeq(mant, d + 1, Len(mant)), LAMBDA fp :
    Let(SubSeq(s, x + 1, Len(s)), LAMBDA ex :
        DecimalOf(ip, fp, x <= Len(s), ex)))))))

\* str::parse::<f64>: <<>> is Err, <<v>> is Ok(v)
ParseF64(s) ==
    Let(IF s # <<>> /\ Head(s) \in {43, 45} THEN Tail(s) ELSE s, LAMBDA body :
    Let(Lower(body), LAMBDA low :
        IF low = <<110, 97, 110>> THEN <<NaN>>
        ELSE IF low = <<105, 110, 102>>
                \/ low = <<105, 110, 102, 105, 110, 105, 116, 121>>
        THEN <<F64("inf", s # <<>> /\ Head(s) = 45, <<>>, 0)>>
        ELSE Let(ParseDecimal(body), LAMBDA p :
                 IF p = <<>> THEN <<>>
                 ELSE Let(p[1].D, LAMBDA D :
                          <<FromDecimal(Head(s) = 45, D, p[1].E)>>))))

----------------------------------------------------------------------------
(* Floating point operations of driver_loop *)

\* 1 when |a| > |b|, -1 when |a| < |b|, 0 when equal; a and b are not NaN
MagCmp(a, b) ==
    IF a.cls = "inf" \/ b.cls = "inf"
    THEN (IF a.cls = "inf" THEN 1 ELSE 0) - (IF b.cls = "inf" THEN 1 ELSE 0)
    ELSE IF a.m = <<>> \/ b.m = <<>>
    THEN (IF a.m = <<>> THEN 0 ELSE 1) - (IF b.m = <<>> THEN 0 ELSE 1)
    ELSE IF BBitLen(a.m) + a.e # BBitLen(b.m) + b.e
    THEN (IF BBitLen(a.m) + a.e > BBitLen(b.m) + b.e THEN 1 ELSE -1)
    ELSE IF a.e >= b.e
    THEN Let(BShl(a.m, a.e - b.e), LAMBDA am : BCmp(am, b.m))
    ELSE Let(BShl(b.m, b.e - a.e), LAMBDA bm : BCmp(a.m, bm))

\* -1, 0, 1 as the number is below zero, a zero, above zero
Sign(a) ==
    IF a.cls = "fin" /\ a.m = <<>> THEN 0 ELSE IF a.neg THEN -1 ELSE 1

\* f64::partial_cmp: "None" when an operand is NaN
PartialCmp(a, b) ==
    IF a.cls = "nan" \/ b.cls = "nan" THEN "None"
    ELSE IF a = b THEN "Equal"
    ELSE <<"Less", "Less", "Equal", "Greater", "Greater">>[
             3 + (IF Sign(a) # Sign(b) THEN Sign(a) - Sign(b)
                  ELSE Sign(a) * MagCmp(a, b))]

\* Iterator::max_by(|a, b| a.partial_cmp(b).unwrap()) folds from the left and
\* keeps the later of two equal elements; unwrap panics on None.
\* The result is <<v>>, or <<>> when the comparison panics.
RECURSIVE MaxByFrom(_, _, _)
MaxByFrom(buf, acc, i) ==
    IF i > Len(buf) THEN <<acc>>
    ELSE IF PartialCmp(acc, buf[i]) = "None" THEN <<>>
    ELSE IF PartialCmp(acc, buf[i]) = "Greater" THEN MaxByFrom(buf, acc, i + 1)
    ELSE MaxByFrom(buf, buf[i], i + 1)

\* the comparison reversed (b.partial_cmp(a)): the fold keeps the least element
RECURSIVE MinByFrom(_, _, _)
MinByFrom(buf, acc, i) ==
    IF i > Len(buf) THEN <<acc>>
    ELSE IF PartialCmp(buf[i], acc) = "None" THEN <<>>
    ELSE IF PartialCmp(buf[i], acc) = "Greater" THEN MinByFrom(buf, acc, i + 1)
    ELSE MinByFrom(buf, buf[i], i + 1)

MaxByReversed(buf) == MinByFrom(buf, buf[1], 2)

MaxBy(buf) == MaxByFrom(buf, buf[1], 2)

\* temp * 100.0
Mul100(t) ==
    IF t.cls # "fin" THEN t
    ELSE Let(BMulSmall(t.m, 100, 0),
             LAMBDA q : RoundF64(t.neg, q, FALSE, t.e))

\* `as i16` of an f64: NaN is 0, the fraction is cut, the value saturates
AsI16(x) ==
    IF x.cls = "nan" THEN 0
    ELSE IF x.cls = "inf" THEN (IF x.neg THEN I16_MIN ELSE I16_MAX)
    ELSE Let(IF BBitLen(x.m) + x.e > 16 THEN 65535
             ELSE IF x.e >= 0 THEN BToInt(BShl(x.m, x.e))
             ELSE BToInt(BShr(x.m, -x.e).q),
             LAMBDA v : IF x.neg THEN Max2(I16_MIN, -v) ELSE Min2(I16_MAX, v))

----------------------------------------------------------------------------
(* thelio_io::fan::FanCurve *)

\* the breakpoints of the curve variant named c, thresholds in hundredths of
\* a degree
Points(c) ==
    <<[temp |-> 4000, duty |-> 20],
      [temp |-> 6000, duty |-> 50],
      [temp |-> 8000, duty |-> 100]>>

\* FanCurve::get_duty: <<>> is None, <<d>> is Some(d)
get_duty(c, t) ==
    LET pts == c
        below == {i \in 1..Len(pts) : pts[i].temp <= t}
    IN  IF below = {} THEN <<>>
        ELSE <<pts[CHOOSE i \in below : \A j \in below : j <= i].duty>>

----------------------------------------------------------------------------
(* driver: hardware classification and device discovery *)

MiraVersions == {"thelio-mira-r1", "thelio-mira-r2"}
HedtVersions == {"thelio-major-r2", "thelio-major-r2.1", "thelio-major-b1",
                 "thelio-major-b2", "thelio-major-b3", "thelio-mega-r1",
                 "thelio-mega-r1.1"}

\* the match on the version alone
CurveForAnyVendor(vendor, version) ==
    IF version \in MiraVersions THEN "standard_smooth"
    ELSE IF version = "thelio-major-r1" THEN "threadripper2"
    ELSE IF version \in HedtVersions THEN "hedt"
    ELSE IF version = "thelio-massive-b1" THEN "xeon"
    ELSE "unsupported"

\* the match on (sys_vendor, product_version)
CurveFor(vendor, version) ==
    IF vendor # "System76" THEN "unsupported"
    ELSE IF version \in MiraVersions THEN "standard_smooth"
    ELSE IF version = "thelio-major-r1" THEN "threadripper2"
    ELSE IF version \in HedtVersions THEN "hedt"
    ELSE IF version = "thelio-massive-b1" THEN "xeon"
    ELSE "unsupported"

\* usb_info.vid == 0x1209 && usb_info.pid == 0x1776 on a UsbPort
IsThelioIo(p) == p.usb /\ p.vid = THELIO_VID /\ p.pid = THELIO_PID

\* the intake header left out
ChannelsCpuOnly == <<"CPUF">>

\* &["CPUF", "INTF"]
Channels == <<"CPUF", "INTF">>

----------------------------------------------------------------------------
(* Inputs of the model *)

Vendors == {"System76", "Acme", ""}
Versions == {"thelio-major-b1", "thelio-mini-x9", ""}

\* a Thelio Io board, another USB serial device of the same vendor id, and a
\* serial port that is not USB
PortKinds ==
    {[usb |-> TRUE, vid |-> THELIO_VID, pid |-> THELIO_PID],
     [usb |-> TRUE, vid |-> THELIO_VID, pid |-> 1],
     [usb |-> FALSE, vid |-> 0, pid |-> 0]}

\* the results of available_ports(): up to MaxPorts ports, named by position
PortLists ==
    UNION {[1..n -> PortKinds] : n \in 0..MaxPorts}

\* a byte from 0x80 on that is part of no UTF-8 sequence, set apart from the
\* code points
InvalidByte(b) == -b

\* core::str::from_utf8 accepts the bytes of the line
IsUtf8(l) == \A i \in 1..Len(l) : l[i] >= 0

\* the lines the sensor subprocess may write
Lines ==
    {<<52, 53, 46, 53, 13, 10>>,  \* "45.5\r\n"
     <<57, 48, 10>>,              \* "90\n"
     <<49, 48, 10>>,              \* "10\n"
     <<45, 53, 10>>,              \* "-5\n"
     <<78, 97, 78, 10>>,          \* "NaN\n"
     <<52, 53, 67, 10>>,          \* "45C\n"
     <<InvalidByte(255), 10>>}    \* the byte 0xFF, "\n"

\* the fan headers of a board after reset: no duty written yet
NoDuty == [c \in {"CPUF", "INTF"} |-> UNSET]

\* the effect of a set_duty command on the boards: header c of board i
\* applies d, the other headers keep their duty
BoardSet(f, i, c, d) == [f EXCEPT ![i][c] = d]

----------------------------------------------------------------------------
(* The state after the service has started, before driver() runs *)

Init ==
    /\ pc = "load_smbios"
    /\ sys_vendor = ""
    /\ product_version = ""
    /\ curve = <<>>
    /\ ports = <<>>
    /\ ios = <<>>
    /\ fan = <<>>
    /\ wrapper = "none"
    /\ wrapper_in = 0
    /\ wrapper_out = <<>>
    /\ recent_temps = <<>>
    /\ recent_temps_i = 0
    /\ line = <<>>
    /\ read_temp = Zero
    /\ temp = Zero
    /\ duty = <<>>
    /\ io_i = 0
    /\ dev_i = 0
    /\ res = "none"
    /\ logged = FALSE
    /\ exit_code = -1
    /\ enumerated = FALSE
    /\ cycle = 0
    /\ sleeps = 0
    /\ produced = <<>>
    /\ samples = <<>>
    /\ smoothed = <<>>
    /\ duties = <<>>
    /\ writes = <<>>
    /\ pipe_log = <<>>

driverVars == <<sys_vendor, product_version, curve, ports, ios, fan, enumerated>>
wrapperVars == <<wrapper, wrapper_in, wrapper_out, produced>>
loopVars == <<recent_temps, recent_temps_i, line, read_temp, temp, duty, io_i,
              dev_i, cycle, sleeps, samples, smoothed, duties, writes,
              pipe_log>>
serviceVars == <<logged, exit_code>>

\* `return Err(..)` and `?` in driver before the subprocess exists
DriverErr(e) ==
    /\ res' = e
    /\ pc' = "returned"

\* `?` in driver_loop: driver_loop returns to driver, at `wrapper.kill()`
LoopErr(e) ==
    /\ res' = e
    /\ pc' = "kill"

----------------------------------------------------------------------------
(* driver *)

\* smbioslib::table_load_from_device()? and the two find_map calls
LoadSmbios ==
    /\ pc = "load_smbios"
    /\ \/ /\ sys_vendor' \in Vendors
          /\ product_version' \in Versions
          /\ pc' = "select_curve"
          /\ res' = res
       \/ /\ DriverErr("Err(smbios)")
          /\ UNCHANGED <<sys_vendor, product_version>>
    /\ UNCHANGED <<curve, ports, ios, fan, enumerated, wrapperVars, loopVars,
                   serviceVars>>

\* let curve = match (sys_vendor, product_version) { .. }
SelectCurve ==
    /\ pc = "select_curve"
    /\ IF CurveFor(sys_vendor, product_version) = "unsupported"
       THEN /\ DriverErr("Err(unsupported)")
            /\ curve' = curve
       ELSE /\ curve' = Points(CurveFor(sys_vendor, product_version))
            /\ pc' = "enumerate"
            /\ res' = res
    /\ UNCHANGED <<sys_vendor, product_version, ports, ios, fan, enumerated,
                   wrapperVars, loopVars, serviceVars>>

\* serialport::available_ports()?
Enumerate ==
    /\ pc = "enumerate"
    /\ enumerated' = TRUE
    /\ \/ /\ ports' \in PortLists
          /\ pc' = "scan"
          /\ res' = res
       \/ /\ DriverErr("Err(available_ports)")
          /\ ports' = ports
    /\ UNCHANGED <<sys_vendor, product_version, curve, ios, fan, wrapperVars,
                   loopVars, serviceVars>>

\* one iteration of `for port_info in ..` on a port that is no Thelio Io
SkipPort ==
    /\ pc = "scan"
    /\ ports # <<>>
    /\ ~IsThelioIo(Head(ports))
    /\ ports' = Tail(ports)
    /\ UNCHANGED <<pc, res, sys_vendor, product_version, curve, ios, fan,
                   enumerated, wrapperVars, loopVars, serviceVars>>

\* serialport::new(..).open()? on a Thelio Io
OpenPort ==
    /\ pc = "scan"
    /\ ports # <<>>
    /\ IsThelioIo(Head(ports))
    /\ \/ /\ pc' = "reset"
          /\ res' = res
       \/ DriverErr("Err(open)")
    /\ UNCHANGED <<driverVars, wrapperVars, loopVars, serviceVars>>

\* Io::new(port, 1000), io.reset()? and ios.push(io)
ResetIo ==
    /\ pc = "reset"
    /\ \/ /\ ios' = Append(ios, Len(ios) + 1)
          /\ fan' = Append(fan, NoDuty)
          /\ ports' = Tail(ports)
          /\ pc' = "scan"
          /\ res' = res
       \/ /\ DriverErr("Err(reset)")
          /\ UNCHANGED <<ios, fan, ports>>
    /\ UNCHANGED <<sys_vendor, product_version, curve, enumerated, wrapperVars,
                   loopVars, serviceVars>>

\* the end of the for loop without the is_empty test
CheckIosLenient ==
    /\ pc = "scan"
    /\ ports = <<>>
    /\ pc' = "current_exe"
    /\ UNCHANGED <<res, driverVars, wrapperVars, loopVars, serviceVars>>

\* the end of the for loop and `if ios.is_empty()`
CheckIos ==
    /\ pc = "scan"
    /\ ports = <<>>
    /\ IF ios = <<>>
       THEN DriverErr("Err(NotFound)")
       ELSE /\ pc' = "current_exe"
            /\ res' = res
    /\ UNCHANGED <<driverVars, wrapperVars, loopVars, serviceVars>>

\* current_exe()?
CurrentExe ==
    /\ pc = "current_exe"
    /\ \/ /\ pc' = "spawn"
          /\ res' = res
       \/ DriverErr("Err(current_exe)")
    /\ UNCHANGED <<driverVars, wrapperVars, loopVars, serviceVars>>

\* Command::new(&wrapper_path)...spawn()?
SpawnWrapper ==
    /\ pc = "spawn"
    /\ \/ /\ wrapper' = "running"
          /\ pc' = "loop_init"
          /\ res' = res
       \/ /\ DriverErr("Err(spawn)")
          /\ wrapper' = wrapper
    /\ UNCHANGED <<driverVars, wrapper_in, wrapper_out, produced, loopVars,
                   serviceVars>>

\* res is returned without wrapper.kill()
KillWrapperSkipped ==
    /\ pc = "kill"
    /\ pc' = "returned"
    /\ UNCHANGED <<res, driverVars, wrapperVars, loopVars, serviceVars>>

\* let _ = wrapper.kill(); res
KillWrapper ==
    /\ pc = "kill"
    /\ wrapper' = IF wrapper = "running" THEN "killed" ELSE wrapper
    /\ pc' = "returned"
    /\ UNCHANGED <<res, driverVars, wrapper_in, wrapper_out, produced, loopVars,
                   serviceVars>>

----------------------------------------------------------------------------
(* The sensor subprocess thelio-io_wrapper.exe *)

\* Console.ReadLine() returns and the subprocess writes one line
WrapperRespond ==
    /\ wrapper = "running"
    /\ wrapper_in > 0
    /\ wrapper_in' = wrapper_in - 1
    /\ \E l \in Lines :
          /\ wrapper_out' = Append(wrapper_out, l)
          /\ produced' = Append(produced, l)
    /\ UNCHANGED <<pc, res, wrapper, driverVars, loopVars, serviceVars>>

\* the subprocess ends by itself and its ends of the pipes are closed; the
\* service can observe this only in write_all and read_line, so the step is
\* taken when the service is at one of them
WrapperExit ==
    /\ wrapper = "running"
    /\ pc = "trigger" \/ (pc = "read" /\ wrapper_out = <<>>)
    /\ wrapper' = "exited"
    /\ UNCHANGED <<pc, res, wrapper_in, wrapper_out, produced, driverVars,
                   loopVars, serviceVars>>

----------------------------------------------------------------------------
(* driver_loop *)

\* stdin/stdout are taken and the ring buffer is built
LoopInit ==
    /\ pc = "loop_init"
    /\ recent_temps' = InitialTemps
    /\ recent_temps_i' = 0
    /\ pc' = "trigger"
    /\ UNCHANGED <<res, driverVars, wrapperVars, line, read_temp, temp, duty,
                   io_i, dev_i, cycle, sleeps, samples, smoothed, duties, writes, pipe_log,
                   serviceVars>>

\* two newlines are written per iteration
TriggerTwice ==
    /\ pc = "trigger"
    /\ cycle < MaxCycles
    /\ cycle' = cycle + 1
    /\ IF wrapper = "running"
       THEN /\ wrapper_in' = wrapper_in + 2
            /\ pipe_log' = pipe_log \o <<"write_all", "write_all">>
            /\ pc' = "read"
            /\ res' = res
       ELSE /\ LoopErr("Err(write_all)")
            /\ UNCHANGED <<wrapper_in, pipe_log>>
    /\ UNCHANGED <<driverVars, wrapper, wrapper_out, produced, recent_temps,
                   recent_temps_i, line, read_temp, temp, duty, io_i, dev_i,
                   sleeps, samples, smoothed, duties, writes, serviceVars>>

\* wrapper_in.write_all(b"\n")?: fails once the subprocess has closed the pipe
Trigger ==
    /\ pc = "trigger"
    /\ cycle < MaxCycles
    /\ cycle' = cycle + 1
    /\ IF wrapper = "running"
       THEN /\ wrapper_in' = wrapper_in + 1
            /\ pipe_log' = Append(pipe_log, "write_all")
            /\ pc' = "read"
            /\ res' = res
       ELSE /\ LoopErr("Err(write_all)")
            /\ UNCHANGED <<wrapper_in, pipe_log>>
    /\ UNCHANGED <<driverVars, wrapper, wrapper_out, produced, recent_temps,
                   recent_temps_i, line, read_temp, temp, duty, io_i, dev_i,
                   sleeps, samples, smoothed, duties, writes, serviceVars>>

\* wrapper_out.read_line(&mut line)?: blocks until a line is there or the
\* pipe is closed (Ok(0), the line stays empty)
ReadLine ==
    /\ pc = "read"
    /\ IF wrapper_out # <<>>
       THEN /\ IsUtf8(Head(wrapper_out))
            /\ line' = Head(wrapper_out)
            /\ wrapper_out' = Tail(wrapper_out)
       ELSE /\ wrapper # "running"
            /\ line' = <<>>
            /\ wrapper_out' = wrapper_out
    /\ pipe_log' = Append(pipe_log, "read_line")
    /\ pc' = "parse"
    /\ UNCHANGED <<res, driverVars, wrapper, wrapper_in, produced, recent_temps,
                   recent_temps_i, read_temp, temp, duty, io_i, dev_i, cycle,
                   sleeps, samples, smoothed, duties, writes, serviceVars>>

\* wrapper_out.read_line(&mut line)? on bytes that are not UTF-8: the bytes
\* up to the newline are taken out of the pipe, the String stays empty and
\* the error is returned
ReadLineFail ==
    /\ pc = "read"
    /\ wrapper_out # <<>>
    /\ ~IsUtf8(Head(wrapper_out))
    /\ wrapper_out' = Tail(wrapper_out)
    /\ line' = <<>>
    /\ LoopErr("Err(read_line)")
    /\ UNCHANGED <<driverVars, wrapper, wrapper_in, produced, recent_temps,
                   recent_temps_i, read_temp, temp, duty, io_i, dev_i, cycle,
                   sleeps, samples, smoothed, duties, writes, pipe_log,
                   serviceVars>>

\* line.trim().parse::<f64>().map_err(..)?
ParseLine ==
    /\ pc = "parse"
    /\ LET parsed == ParseF64(Trim(line))
       IN  IF parsed = <<>>
           THEN /\ LoopErr("Err(InvalidData)")
                /\ read_temp' = read_temp
           ELSE /\ read_temp' = parsed[1]
                /\ pc' = "push"
                /\ res' = res
    /\ UNCHANGED <<driverVars, wrapperVars, recent_temps, recent_temps_i,
                   line, temp, duty, io_i, dev_i, cycle, sleeps, samples,
                   smoothed, duties, writes, pipe_log,
                   serviceVars>>

\* recent_temps[recent_temps_i] = read_temp; the index advances
Push ==
    /\ pc = "push"
    /\ recent_temps' = Store(recent_temps, recent_temps_i, read_temp)
    /\ recent_temps_i' = NextIndex(recent_temps_i)
    /\ samples' = Append(samples, read_temp)
    /\ pc' = "smooth"
    /\ UNCHANGED <<res, driverVars, wrapperVars, line, read_temp, temp, duty,
                   io_i, dev_i, cycle, sleeps, smoothed, duties, writes, pipe_log,
                   serviceVars>>

\* the maximum is taken as zero while the buffer still holds a slot that no
\* sample has overwritten
SmoothPrimed ==
    /\ pc = "smooth"
    /\ IF MaxBy(recent_temps) = <<>>
       THEN /\ pc' = "panicked"
            /\ UNCHANGED <<temp, smoothed>>
       ELSE /\ temp' = IF Len(samples) < points_in_spin_down
                       THEN Zero
                       ELSE MaxBy(recent_temps)[1]
            /\ smoothed' = Append(smoothed, temp')
            /\ pc' = "lookup"
    /\ UNCHANGED <<res, driverVars, wrapperVars, recent_temps, recent_temps_i,
                   line, read_temp, duty, io_i, dev_i, cycle, sleeps, samples,
                   duties, writes, pipe_log, serviceVars>>

\* the maximum is taken over the slots other than the one just written
SmoothOlder ==
    /\ pc = "smooth"
    /\ IF MaxBy(recent_temps) = <<>>
       THEN /\ pc' = "panicked"
            /\ UNCHANGED <<temp, smoothed>>
       ELSE /\ LET newest == ((recent_temps_i + points_in_spin_down - 1)
                                 % points_in_spin_down) + 1
                   older == [k \in 1..(points_in_spin_down - 1) |->
                               recent_temps[IF k < newest THEN k ELSE k + 1]]
               IN  temp' = MaxBy(older)[1]
            /\ smoothed' = Append(smoothed, temp')
            /\ pc' = "lookup"
    /\ UNCHANGED <<res, driverVars, wrapperVars, recent_temps, recent_temps_i,
                   line, read_temp, duty, io_i, dev_i, cycle, sleeps, samples,
                   duties, writes, pipe_log, serviceVars>>

\* let temp = recent_temps.iter().max_by(..).unwrap(): the thread panics when
\* a comparison meets NaN
Smooth ==
    /\ pc = "smooth"
    /\ IF MaxBy(recent_temps) = <<>>
       THEN /\ pc' = "panicked"
            /\ UNCHANGED <<temp, smoothed>>
       ELSE /\ temp' = MaxBy(recent_temps)[1]
            /\ smoothed' = Append(smoothed, temp')
            /\ pc' = "lookup"
    /\ UNCHANGED <<res, driverVars, wrapperVars, recent_temps, recent_temps_i,
                   line, read_temp, duty, io_i, dev_i, cycle, sleeps, samples,
                   duties, writes, pipe_log,
                   serviceVars>>

\* a lookup without result does not skip the for loops
AfterLookupNoSkip(d) ==
    IF ios = <<>> THEN "sleep" ELSE "set_duty"

\* the set_duty calls of a cycle are over: sleep, or the next call
AfterLookup(d) ==
    IF d = <<>> \/ ios = <<>> THEN "sleep" ELSE "set_duty"

\* the temperature is passed in whole degrees: curve.get_duty(temp as i16)
LookupUnscaled ==
    /\ pc = "lookup"
    /\ duty' = get_duty(curve, AsI16(temp))
    /\ duties' = Append(duties, duty')
    /\ io_i' = 1
    /\ dev_i' = 1
    /\ pc' = AfterLookup(duty')
    /\ UNCHANGED <<res, driverVars, wrapperVars, recent_temps, recent_temps_i,
                   line, read_temp, temp, cycle, sleeps, samples, smoothed, writes,
                   pipe_log, serviceVars>>

\* if let Some(duty) = curve.get_duty((temp * 100.0) as i16)
Lookup ==
    /\ pc = "lookup"
    /\ duty' = get_duty(curve, AsI16(Mul100(temp)))
    /\ duties' = Append(duties, duty')
    /\ io_i' = 1
    /\ dev_i' = 1
    /\ pc' = AfterLookup(duty')
    /\ UNCHANGED <<res, driverVars, wrapperVars, recent_temps, recent_temps_i,
                   line, read_temp, temp, cycle, sleeps, samples, smoothed, writes,
                   pipe_log,
                   serviceVars>>

\* the record of a set_duty call
WriteRec(ok) ==
    [cycle |-> cycle, io |-> ios[io_i], device |-> Channels[dev_i],
     duty |-> duty[1], ok |-> ok]

\* the call is left out when the header already applies the duty
SetDutyOkIfChanged ==
    /\ pc = "set_duty"
    /\ fan' = BoardSet(fan, io_i, Channels[dev_i], duty[1])
    /\ writes' = IF fan[io_i][Channels[dev_i]] = duty[1]
                 THEN writes
                 ELSE Append(writes, WriteRec(TRUE))
    /\ IF dev_i < Len(Channels)
       THEN /\ dev_i' = dev_i + 1
            /\ io_i' = io_i
            /\ pc' = pc
       ELSE /\ dev_i' = 1
            /\ io_i' = io_i + 1
            /\ pc' = IF io_i < Len(ios) THEN pc ELSE "sleep"
    /\ UNCHANGED <<res, sys_vendor, product_version, curve, ports, ios,
                   enumerated, wrapperVars, recent_temps, recent_temps_i, line,
                   read_temp, temp, duty, cycle, sleeps, samples, smoothed, duties,
                   pipe_log, serviceVars>>

\* io.set_duty(device, duty) succeeds; the for loops advance
SetDutyOk ==
    /\ pc = "set_duty"
    /\ fan' = BoardSet(fan, io_i, Channels[dev_i], duty[1])
    /\ writes' = Append(writes, WriteRec(TRUE))
    /\ IF dev_i < Len(Channels)
       THEN /\ dev_i' = dev_i + 1
            /\ io_i' = io_i
            /\ pc' = pc
       ELSE /\ dev_i' = 1
            /\ io_i' = io_i + 1
            /\ pc' = IF io_i < Len(ios) THEN pc ELSE "sleep"
    /\ UNCHANGED <<res, sys_vendor, product_version, curve, ports, ios,
                   enumerated, wrapperVars, recent_temps, recent_temps_i, line,
                   read_temp, temp, duty, cycle, sleeps, samples, smoothed, duties,
                   pipe_log,
                   serviceVars>>

\* the error of set_duty is dropped and the for loops advance
SetDutyFailIgnored ==
    /\ pc = "set_duty"
    /\ fan' \in {fan, BoardSet(fan, io_i, Channels[dev_i], duty[1])}
    /\ writes' = Append(writes, WriteRec(FALSE))
    /\ IF dev_i < Len(Channels)
       THEN /\ dev_i' = dev_i + 1
            /\ io_i' = io_i
            /\ pc' = pc
       ELSE /\ dev_i' = 1
            /\ io_i' = io_i + 1
            /\ pc' = IF io_i < Len(ios) THEN pc ELSE "sleep"
    /\ UNCHANGED <<res, sys_vendor, product_version, curve, ports, ios,
                   enumerated, wrapperVars, recent_temps, recent_temps_i, line,
                   read_temp, temp, duty, cycle, sleeps, samples, smoothed,
                   duties, pipe_log,
                   serviceVars>>

\* io.set_duty(device, duty).map_err(..)? fails: the board may or may not
\* have applied the command
SetDutyFail ==
    /\ pc = "set_duty"
    /\ fan' \in {fan, BoardSet(fan, io_i, Channels[dev_i], duty[1])}
    /\ writes' = Append(writes, WriteRec(FALSE))
    /\ LoopErr("Err(set_duty)")
    /\ UNCHANGED <<sys_vendor, product_version, curve, ports, ios, enumerated,
                   wrapperVars, recent_temps, recent_temps_i, line, read_temp,
                   temp, duty, io_i, dev_i, cycle, sleeps, samples,
                   smoothed, duties, pipe_log,
                   serviceVars>>

\* the next iteration starts without the sleep
SleepSkipped ==
    /\ pc = "sleep"
    /\ pc' = "trigger"
    /\ UNCHANGED <<res, driverVars, wrapperVars, loopVars, serviceVars>>

\* sleep(POLLING_DELAY), then the next iteration
Sleep ==
    /\ pc = "sleep"
    /\ sleeps' = sleeps + 1
    /\ pc' = "trigger"
    /\ UNCHANGED <<res, driverVars, wrapperVars, recent_temps, recent_temps_i,
                   line, read_temp, temp, duty, io_i, dev_i, cycle, samples,
                   smoothed, duties, writes, pipe_log,
                   serviceVars>>

----------------------------------------------------------------------------
(* service_main *)

\* if let Err(err) = driver() { log::error!(..); exit(1); }
ServiceExit ==
    /\ pc = "returned"
    /\ logged' = TRUE
    /\ exit_code' = 1
    /\ pc' = "exited"
    /\ UNCHANGED <<res, driverVars, wrapperVars, loopVars>>

----------------------------------------------------------------------------

Next ==
    \/ LoadSmbios
    \/ SelectCurve
    \/ Enumerate
    \/ SkipPort
    \/ OpenPort
    \/ ResetIo
    \/ CheckIos
    \/ CurrentExe
    \/ SpawnWrapper
    \/ KillWrapper
    \/ WrapperRespond
    \/ WrapperExit
    \/ LoopInit
    \/ Trigger
    \/ ReadLine
    \/ ReadLineFail
    \/ ParseLine
    \/ Push
    \/ Smooth
    \/ Lookup
    \/ SetDutyOk
    \/ SetDutyFail
    \/ Sleep
    \/ ServiceExit

Spec == Init /\ [][Next]_vars

----------------------------------------------------------------------------
(* Properties *)

SetMax(S) == CHOOSE x \in S : \A y \in S : y <= x

\* the order of the f64 values that are no NaN
FLe(a, b) == PartialCmp(a, b) \in {"Less", "Equal"}
FLt(a, b) == PartialCmp(a, b) = "Less"
FEq(a, b) == PartialCmp(a, b) = "Equal"

\* the greatest of a set of f64 values; no value is the greatest when one of
\* them is NaN
FMax(S) ==
    IF \E x \in S : x.cls = "nan" THEN NaN
    ELSE CHOOSE x \in S : \A y \in S : FLe(y, x)

\* the result of the parse for each line the subprocess may write
LineValues == [l \in Lines |-> ParseF64(Trim(l))]

\* the values of the sample lines
Temp45_5 == Dec(4550)
Temp90 == Dec(9000)
Temp10 == Dec(1000)
TempMinus5 == Dec(-500)

\* the samples of cycles a..b
SamplesOf(a, b) == {samples[i] : i \in a..b}

\* C1: sliding-window law. The capacity is 3, and the maximum computed in a
\* cycle k >= capacity is the greatest of the samples of the cycles
\* k-capacity+1 .. k, whatever their order and whatever was read before.
C1_SlidingWindow ==
    /\ points_in_spin_down = 3
    /\ \A k \in 1..Len(smoothed) :
          k >= 3 => FEq(smoothed[k], FMax(SamplesOf(k - 2, k)))

\* a fourth cycle whose maximum is below the sample of the first cycle
C1_Witness ==
    /\ Len(smoothed) >= 4
    /\ FLt(smoothed[4], samples[1])
    /\ FEq(samples[2], smoothed[4])
    /\ FLt(samples[4], smoothed[4])

\* C2: cold-start law. The buffer starts with every slot zero, the slots not
\* yet written stay zero, and the maximum computed after k < capacity samples
\* is the greatest of these k samples and zero.
C2_ColdStart ==
    /\ pc = "trigger" /\ cycle = 0 => recent_temps = <<Zero, Zero, Zero>>
    /\ pc \in {"trigger", "read", "parse", "push", "smooth", "lookup",
               "set_duty", "sleep"}
         => \A i \in (Len(samples) + 1)..3 : recent_temps[i] = Zero
    /\ \A k \in 1..Len(smoothed) :
          k < 3 => FEq(smoothed[k], FMax(SamplesOf(1, k) \cup {Zero}))

\* two samples below zero have been pushed and the maximum is still zero
C2_Witness ==
    /\ Len(smoothed) = 2
    /\ FLt(samples[1], Zero)
    /\ FLt(samples[2], Zero)
    /\ smoothed = <<Zero, Zero>>

\* the samples 10, 90, 10, 10, 10 and the maxima they give
HoldSamples == <<Temp10, Temp90, Temp10, Temp10, Temp10>>
HoldSmoothed == <<Temp10, Temp90, Temp90, Temp90, Temp10>>

\* C3: spin-down hold. The sample of cycle k keeps the maximum at or above
\* itself in the cycles k .. k+capacity-1, and from cycle k+capacity on the
\* maximum is at most the greatest sample read after cycle k. The samples
\* 10, 90, 10, 10 give 90 in the two cycles after the 90, and a further 10
\* lets the maximum drop to 10.
C3_SpinDownHold ==
    /\ \A k \in 1..Len(smoothed) : \A j \in k..Len(smoothed) :
          /\ j <= k + 2 => FLe(samples[k], smoothed[j])
          /\ j >= k + 3 => FLe(smoothed[j], FMax(SamplesOf(k + 1, j)))
    /\ \A n \in 1..Min2(Len(smoothed), 5) :
          SubSeq(samples, 1, n) = SubSeq(HoldSamples, 1, n)
            => smoothed[n] = HoldSmoothed[n]

\* a 90 followed by three 10s: held for two more cycles, then dropped
C3_Witness ==
    /\ Len(samples) = 4
    /\ samples = <<Temp90, Temp10, Temp10, Temp10>>
    /\ smoothed = <<Temp90, Temp90, Temp90, Temp10>>

\* the text is a decimal number: an optional sign, digits with an optional
\* fraction, an optional exponent
IsNumber(l) ==
    LET t == Trim(l)
        body == IF t # <<>> /\ Head(t) \in {43, 45} THEN Tail(t) ELSE t
    IN  ParseDecimal(body) # <<>>

\* C4: a sample-read failure is fatal. When the trigger write fails, the read
\* fails or the line is not a number, driver_loop returns the error in that
\* cycle: nothing is pushed, no set_duty call of that cycle or a later one is
\* issued, and the loop goes on past the parse only with a line that is a
\* number.
C4_ReadFailureFatal ==
    /\ res \in {"Err(write_all)", "Err(read_line)", "Err(InvalidData)"}
         => /\ pc \in {"kill", "returned", "exited"}
            /\ Len(samples) = cycle - 1
            /\ \A i \in 1..Len(writes) : writes[i].cycle < cycle
    /\ pc \in {"push", "smooth", "lookup", "set_duty", "sleep", "panicked"}
         => IsNumber(line)
    /\ pc \in {"kill", "returned", "exited"} /\ cycle >= 1 /\ ~IsNumber(line)
         => Len(samples) = cycle - 1

\* the set_duty calls of cycle n
CycleWrites(n) == SelectSeq(writes, LAMBDA w : w.cycle = n)

\* the calls of a cycle that applies d: each board in order, CPUF before INTF
FullWrites(n, d) ==
    [k \in 1..(2 * Len(ios)) |->
        [cycle |-> n, io |-> (k + 1) \div 2,
         device |-> IF k % 2 = 1 THEN "CPUF" ELSE "INTF",
         duty |-> d, ok |-> TRUE]]

\* C5: an actuation failure is fatal, without rollback. A failed set_duty call
\* is the last call ever issued and makes driver_loop return the error; the
\* calls of that cycle are a prefix of the full sequence, and the pairs
\* written before the failing call hold the new duty.
C5_ActuationFailureFatal ==
    /\ \A i \in 1..(Len(writes) - 1) : writes[i].ok
    /\ res = "Err(set_duty)" <=> (writes # <<>> /\ ~writes[Len(writes)].ok)
    /\ res = "Err(set_duty)"
         => LET cw == CycleWrites(cycle)
            IN  /\ pc \in {"kill", "returned", "exited"}
                /\ Len(cw) >= 1
                /\ \A k \in 1..Len(cw) :
                      /\ cw[k].io = FullWrites(cycle, duty[1])[k].io
                      /\ cw[k].device = FullWrites(cycle, duty[1])[k].device
                      /\ cw[k].duty = duty[1]
                /\ \A k \in 1..(Len(cw) - 1) :
                      fan[cw[k].io][cw[k].device] = duty[1]

\* the second call of a cycle has failed on a machine with two boards: CPUF of
\* the first board holds the new duty, the second board still holds the old
C5_Witness ==
    /\ res = "Err(set_duty)"
    /\ pc = "exited"
    /\ Len(ios) = 2
    /\ cycle >= 2
    /\ Len(CycleWrites(cycle)) = 2
    /\ fan[1]["CPUF"] = duty[1]
    /\ fan[2]["CPUF"] # duty[1]
    /\ fan[2]["CPUF"] # UNSET

\* the duty of the last set_duty call on header c of board i
LastWritten(i, c) ==
    LET on == {k \in 1..Len(writes) : writes[k].io = i /\ writes[k].device = c}
    IN  IF on = {} THEN UNSET
        ELSE writes[CHOOSE k \in on : \A j \in on : j <= k].duty

\* C6: skip on no duty. A cycle whose lookup returns None issues no set_duty
\* call; at its end every header holds the duty last written, there is no
\* error, and the loop sleeps once and is at the next trigger.
C6_SkipOnNoDuty ==
    /\ \A n \in 1..Len(duties) :
          duties[n] = <<>> => \A i \in 1..Len(writes) : writes[i].cycle # n
    /\ Len(duties) = cycle /\ cycle >= 1 /\ duties[cycle] = <<>>
         => /\ pc \in {"sleep", "trigger"}
            /\ res = "none"
            /\ sleeps = IF pc = "sleep" THEN cycle - 1 ELSE cycle
            /\ \A i \in 1..Len(ios) : \A c \in {"CPUF", "INTF"} :
                  fan[i][c] = LastWritten(i, c)

\* the fourth cycle found no duty while the boards applied a duty written
\* before; the loop has slept and is at the next trigger
C6_Witness ==
    /\ cycle = 4
    /\ pc = "trigger"
    /\ sleeps = 4
    /\ res = "none"
    /\ Len(duties) = 4
    /\ duties[3] # <<>>
    /\ duties[4] = <<>>
    /\ fan[1]["CPUF"] = duties[3][1]
    /\ fan[1]["INTF"] = duties[3][1]

\* cycle n is over and the loop goes on
CycleDone(n) == n < cycle \/ (n = cycle /\ pc \in {"sleep", "trigger"})

\* C7: full application. A cycle whose lookup returns d and that is over has
\* issued exactly the calls (board, CPUF, d), (board, INTF, d) for each board
\* in order, and at its end every header of every board holds d.
C7_FullApplication ==
    /\ \A n \in 1..Len(duties) :
          duties[n] # <<>> /\ CycleDone(n)
            => CycleWrites(n) = FullWrites(n, duties[n][1])
    /\ pc = "sleep" /\ duty # <<>>
         => \A i \in 1..Len(ios) : \A c \in {"CPUF", "INTF"} :
               fan[i][c] = duty[1]

\* two boards, a second cycle that applied a duty other than the first
C7_Witness ==
    /\ pc = "sleep"
    /\ Len(ios) = 2
    /\ cycle = 2
    /\ duties = <<<<20>>, <<100>>>>
    /\ Len(writes) = 8
    /\ fan[2]["INTF"] = 100

\* the maximum over the window that ends with the sample of cycle n
WindowMax(n) ==
    FMax(SamplesOf(Max2(1, n - 2), n) \cup (IF n < 3 THEN {Zero} ELSE {}))

\* C8: cycle ordering. The k-th sample pushed is the k-th line the subprocess
\* wrote, one per cycle; the lookup of cycle n is that of the maximum over the
\* window ending with the sample of cycle n, and every set_duty call of cycle
\* n carries that duty and is issued after the sample of cycle n was pushed.
C8_CycleOrdering ==
    /\ Len(samples) <= cycle
    /\ Len(samples) >= cycle - 1
    /\ Len(samples) <= Len(produced)
    /\ \A k \in 1..Len(samples) : <<samples[k]>> = LineValues[produced[k]]
    /\ \A n \in 1..Len(duties) :
          /\ n <= Len(samples)
          /\ duties[n] = get_duty(curve, AsI16(Mul100(WindowMax(n))))
    /\ \A i \in 1..Len(writes) :
          /\ writes[i].cycle <= Len(duties)
          /\ <<writes[i].duty>> = duties[writes[i].cycle]

\* three cycles: a duty, a higher one, and the higher one held over a cold sample
C8_Witness ==
    /\ Len(samples) = 3
    /\ pc = "sleep"
    /\ samples = <<Temp45_5, Temp90, TempMinus5>>
    /\ duties = <<<<20>>, <<100>>, <<100>>>>
    /\ writes[Len(writes)].cycle = 3

\* the versions the match of driver names for System76
RegisteredVersions ==
    {"thelio-mira-r1", "thelio-mira-r2", "thelio-major-r1", "thelio-major-r2",
     "thelio-major-r2.1", "thelio-major-b1", "thelio-major-b2",
     "thelio-major-b3", "thelio-mega-r1", "thelio-mega-r1.1",
     "thelio-massive-b1"}

Registered == sys_vendor = "System76" /\ product_version \in RegisteredVersions

\* C9: unsupported hardware fails fast. Once the SMBIOS pair has been read
\* and matches no registered curve, driver has returned the `unsupported`
\* error: no port was enumerated, no board opened, no subprocess spawned, the
\* loop never entered and nothing written. The error is returned in no other case.
C9_UnsupportedFailsFast ==
    /\ pc \notin {"load_smbios", "select_curve"} /\ res # "Err(smbios)"
         /\ ~Registered
         => /\ res = "Err(unsupported)"
            /\ pc \in {"returned", "exited"}
            /\ ~enumerated
            /\ ports = <<>>
            /\ ios = <<>>
            /\ fan = <<>>
            /\ wrapper = "none"
            /\ recent_temps = <<>>
            /\ cycle = 0
            /\ writes = <<>>
    /\ res = "Err(unsupported)" => ~Registered

\* a System76 machine of a version without curve has ended the service
C9_Witness ==
    /\ res = "Err(unsupported)"
    /\ pc = "exited"
    /\ sys_vendor = "System76"
    /\ product_version = "thelio-mini-x9"

LoopPcs == {"loop_init", "trigger", "read", "parse", "push", "smooth",
            "lookup", "set_duty", "sleep", "panicked", "kill"}

\* the state part of C10: NotFound comes before the subprocess and the loop,
\* the loop has a device set that is not empty, and a discovery that ends
\* with an empty device set returns NotFound
C10_StateInv ==
    /\ res = "Err(NotFound)"
         => /\ enumerated
            /\ ios = <<>>
            /\ wrapper = "none"
            /\ recent_temps = <<>>
            /\ cycle = 0
            /\ pc \in {"returned", "exited"}
    /\ pc \in {"current_exe", "spawn"} \cup LoopPcs \/ wrapper # "none"
         => ios # <<>>
    /\ pc \notin {"load_smbios", "select_curve", "enumerate", "scan", "reset"}
         /\ enumerated /\ ios = <<>>
         /\ res \notin {"Err(available_ports)", "Err(open)", "Err(reset)"}
         => res = "Err(NotFound)"

\* C10: no device is fatal at startup. A discovery that ends with an empty
\* device set returns NotFound before the subprocess is spawned and before
\* the loop; the loop runs with a device set that is not empty and that no
\* step of the loop changes.
C10_NoDeviceFatal ==
    /\ []C10_StateInv
    /\ [][(pc \in LoopPcs) => (ios' = ios)]_vars

\* discovery saw only ports that are no Thelio Io and the service has ended
C10_Witness ==
    /\ res = "Err(NotFound)"
    /\ pc = "exited"
    /\ enumerated
    /\ wrapper = "none"

\* the errors driver_loop returns
LoopErrors == {"Err(write_all)", "Err(read_line)", "Err(InvalidData)",
               "Err(set_duty)"}

\* the positions inside the `loop` block of driver_loop
InLoop == pc \in {"trigger", "read", "parse", "push", "smooth", "lookup",
                  "set_duty", "sleep"}

\* C11: no voluntary termination. Once driver_loop has started a cycle it is
\* left only by returning an error of a failed write_all, read_line, parse or
\* set_duty, and each of these errors comes from such a failure in the cycle
\* that was running; where every read, parse and write succeeded the thread
\* is still inside the loop.
C11_NoVoluntaryTermination ==
    /\ cycle >= 1 /\ ~InLoop => res \in LoopErrors
    /\ res = "Err(write_all)" => wrapper = "exited"
    /\ res = "Err(InvalidData)" => ParseF64(Trim(line)) = <<>>
    /\ res = "Err(set_duty)" => writes # <<>> /\ ~writes[Len(writes)].ok
    /\ res \in LoopErrors => Len(smoothed) < cycle \/ res = "Err(set_duty)"

----------------------------------------------------------------------------
(* driver_loop from its first cycle on, for a choice of breakpoint tables *)

\* breakpoint tables with a first threshold above, at and below zero degrees
StartupTables ==
    {<<[temp |-> 4000, duty |-> 20], [temp |-> 6000, duty |-> 50],
       [temp |-> 8000, duty |-> 100]>>,
     <<[temp |-> 0, duty |-> 20], [temp |-> 6000, duty |-> 100]>>,
     <<[temp |-> -1000, duty |-> 20], [temp |-> 0, duty |-> 50],
       [temp |-> 4550, duty |-> 100]>>}

\* driver_loop before its first iteration: one board, the subprocess
\* spawned, the buffer built
StartupInit ==
    /\ pc = "trigger"
    /\ sys_vendor = "System76"
    /\ product_version = "thelio-major-b1"
    /\ curve \in StartupTables
    /\ ports = <<>>
    /\ ios = <<1>>
    /\ fan = <<NoDuty>>
    /\ wrapper = "running"
    /\ wrapper_in = 0
    /\ wrapper_out = <<>>
    /\ recent_temps = InitialTemps
    /\ recent_temps_i = 0
    /\ line = <<>>
    /\ read_temp = Zero
    /\ temp = Zero
    /\ duty = <<>>
    /\ io_i = 0
    /\ dev_i = 0
    /\ res = "none"
    /\ logged = FALSE
    /\ exit_code = -1
    /\ enumerated = TRUE
    /\ cycle = 0
    /\ sleeps = 0
    /\ produced = <<>>
    /\ samples = <<>>
    /\ smoothed = <<>>
    /\ duties = <<>>
    /\ writes = <<>>
    /\ pipe_log = <<>>

\* the loop, the subprocess, and the way out of driver and service_main
StartupNext ==
    \/ Trigger
    \/ WrapperRespond
    \/ WrapperExit
    \/ ReadLine
    \/ ReadLineFail
    \/ ParseLine
    \/ Push
    \/ Smooth
    \/ Lookup
    \/ SetDutyOk
    \/ SetDutyFail
    \/ Sleep
    \/ KillWrapper
    \/ ServiceExit

StartupSpec == StartupInit /\ [][StartupNext]_vars

\* the lowest duty of the curve: no duty, or the duty of the first breakpoint
LowestDuty(d) == d = <<>> \/ d = <<curve[1].duty>>

\* C12 as stated: conservative startup. In the first capacity-1 cycles the
\* loop drives the lowest duty (no duty, or the duty of the first breakpoint),
\* whatever the samples read in those cycles.
C12_ConservativeStartup ==
    \A k \in 1..Len(duties) :
        k < points_in_spin_down => LowestDuty(duties[k])

\* the hundredths of a degree that the loop passes to the lookup for x
Hundredths(x) == AsI16(Mul100(x))

\* the greatest of zero and the samples read in the cycles 1..k
StartupMax(k) == FMax(SamplesOf(1, k) \cup {Zero})

\* C12, amended: in each of the first capacity-1 cycles the loop looks up the
\* greatest of zero and the samples read so far, a slot not yet written
\* counting as a sample of zero degrees. The duty is the lowest as long as
\* that greatest value is below the second threshold of the curve, and a
\* sample that is the greatest so far is looked up in the cycle that read it.
C12_StartupFollowsSamples ==
    \A k \in 1..Len(duties) :
        k < points_in_spin_down
          => /\ duties[k] = get_duty(curve, Hundredths(StartupMax(k)))
             /\ (Len(curve) >= 2
                    => Hundredths(StartupMax(k)) < curve[2].temp)
                  => LowestDuty(duties[k])
             /\ FEq(samples[k], StartupMax(k))
                  => duties[k] = get_duty(curve, Hundredths(samples[k]))

\* a curve that starts at zero degrees, a first sample of -5 and a second of
\* 90: the zero slots give the first duty in cycle 1, the sample the highest
\* in cycle 2, one slot of the buffer still zero
C12_Witness ==
    /\ cycle = 2
    /\ pc = "sleep"
    /\ curve[1].temp = 0
    /\ samples = <<TempMinus5, Temp90>>
    /\ recent_temps = <<TempMinus5, Temp90, Zero>>
    /\ duties = <<<<20>>, <<100>>>>
    /\ fan[1]["CPUF"] = 100
    /\ fan[1]["INTF"] = 100

----------------------------------------------------------------------------
(* The lookup of driver_loop on its own: every table, one temperature *)

Thresholds == {30, 1999, 4000, 6000, 8000}
DutyValues == {20, 50, 100}

\* the breakpoint tables: up to MaxPoints points, thresholds strictly rising
Tables ==
    UNION {{T \in [1..n -> [temp : Thresholds, duty : DutyValues]] :
               \A i \in 1..(n - 1) : T[i].temp < T[i + 1].temp}
           : n \in 1..MaxPoints}

\* the lines read in the cycle of the lookup: temperatures below, at and
\* above the thresholds, two whose f64 lies below the decimal written, and
\* one beyond the range of i16 hundredths
CurveLines ==
    {<<48, 46, 51, 10>>,          \* "0.3\n"
     <<49, 57, 46, 57, 57, 10>>,  \* "19.99\n"
     <<50, 48, 10>>,              \* "20\n"
     <<51, 53, 10>>,              \* "35\n"
     <<52, 48, 10>>,              \* "40\n"
     <<53, 48, 10>>,              \* "50\n"
     <<53, 53, 10>>,              \* "55\n"
     <<54, 48, 10>>,              \* "60\n"
     <<54, 53, 10>>,              \* "65\n"
     <<56, 48, 10>>,              \* "80\n"
     <<56, 53, 10>>,              \* "85\n"
     <<52, 48, 48, 10>>}          \* "400\n"

\* driver_loop in its first cycle, before line 79: one board, the line read,
\* parsed and stored, and its maximum taken
CurveInit ==
    /\ pc = "lookup"
    /\ sys_vendor = "System76"
    /\ product_version = "thelio-major-b1"
    /\ line \in CurveLines
    /\ read_temp = ParseF64(Trim(line))[1]
    /\ recent_temps = Store(InitialTemps, 0, read_temp)
    /\ recent_temps_i = NextIndex(0)
    /\ temp = MaxBy(recent_temps)[1]
    /\ curve \in Tables
    /\ ports = <<>>
    /\ ios = <<1>>
    /\ fan = <<NoDuty>>
    /\ wrapper = "running"
    /\ wrapper_in = 0
    /\ wrapper_out = <<>>
    /\ duty = <<>>
    /\ io_i = 0
    /\ dev_i = 0
    /\ res = "none"
    /\ logged = FALSE
    /\ exit_code = -1
    /\ enumerated = TRUE
    /\ cycle = 1
    /\ sleeps = 0
    /\ produced = <<line>>
    /\ samples = <<read_temp>>
    /\ smoothed = <<temp>>
    /\ duties = <<>>
    /\ writes = <<>>
    /\ pipe_log = <<"write_all", "read_line">>

\* lines 79-92: the lookup, the set_duty calls and the sleep
CurveNext ==
    \/ Lookup
    \/ SetDutyOk
    \/ Sleep

CurveSpec == CurveInit /\ [][CurveNext]_vars

\* the number of breakpoints of T at or below h: for a sorted table, the
\* position of the greatest threshold <= h
StepOf(T, h) == Cardinality({i \in 1..Len(T) : T[i].temp <= h})

\* 100 * x, the product not rounded (the mantissa is left as it comes)
Exact100(x) == F64("fin", x.neg, BMulSmall(x.m, 100, 0), x.e)

\* the whole number t
Whole(t) == F64("fin", t < 0, BFromInt(IF t < 0 THEN -t ELSE t), 0)

\* the threshold of t hundredths of a degree is at or below the temperature
\* x: t <= 100 * x
Reached(t, x) ==
    IF x.cls # "fin" THEN FLe(Zero, x)
    ELSE FLe(Whole(t), Exact100(x))

\* the threshold of t hundredths of a degree is less than one hundredth above
\* the temperature x: t - 1 < 100 * x
Near(t, x) ==
    IF x.cls # "fin" THEN FLe(Zero, x)
    ELSE FLt(Whole(t - 1), Exact100(x))

\* the number of breakpoints of T at or below the temperature x
StepOfTemp(T, x) == Cardinality({i \in 1..Len(T) : Reached(T[i].temp, x)})

\* the number of breakpoints of T less than one hundredth above x
StepOfNear(T, x) == Cardinality({i \in 1..Len(T) : Near(T[i].temp, x)})

\* the result of the lookup that stops at breakpoint n of T
DutyAt(T, n) == IF n = 0 THEN <<>> ELSE <<T[n].duty>>

ExampleTable ==
    <<[temp |-> 4000, duty |-> 20],
      [temp |-> 6000, duty |-> 50],
      [temp |-> 8000, duty |-> 100]>>

ExampleTemps == <<Dec(3500), Dec(5000), Dec(6500), Dec(8500), Dec(5500)>>

\* the lookup of the first cycle is the step function of its table at the
\* smoothed temperature
StepLaw ==
    duties[1] = DutyAt(curve, StepOfTemp(curve, smoothed[1]))

\* the lookup of the first cycle counts every threshold at or below the
\* smoothed temperature and none that is a hundredth or more above it
StepLawToTheHundredth ==
    \E n \in StepOfTemp(curve, smoothed[1])..StepOfNear(curve, smoothed[1]) :
        duties[1] = DutyAt(curve, n)

\* the hundredths that (x * 100.0) as i16 gives for the number each line
\* writes: 19.99 * 100.0 is 1998.9999999999998, 0.3 * 100.0 is 30.0, and
\* 40000.0 is held at the greatest i16
LineHundredths ==
    [l \in CurveLines |->
        CASE l = <<48, 46, 51, 10>> -> 30
          [] l = <<49, 57, 46, 57, 57, 10>> -> 1998
          [] l = <<50, 48, 10>> -> 2000
          [] l = <<51, 53, 10>> -> 3500
          [] l = <<52, 48, 10>> -> 4000
          [] l = <<53, 48, 10>> -> 5000
          [] l = <<53, 53, 10>> -> 5500
          [] l = <<54, 48, 10>> -> 6000
          [] l = <<54, 53, 10>> -> 6500
          [] l = <<56, 48, 10>> -> 8000
          [] l = <<56, 53, 10>> -> 8500
          [] l = <<52, 48, 48, 10>> -> 32767]

\* the lookup of the first cycle is the step function of its table at the
\* hundredths of the line read
StepLawOfLine ==
    duties[1] = DutyAt(curve, StepOf(curve, LineHundredths[line]))

\* with the table of the example, the temperatures of the example have given
\* D once their cycle is over
ExampleGives(D) ==
    curve = ExampleTable /\ pc = "sleep"
      => \A i \in 1..5 : smoothed[1] = ExampleTemps[i] => duties[1] = D[i]

C13_Example55 ==
    /\ pc = "sleep"
    /\ curve = ExampleTable
    /\ smoothed = <<Dec(5500)>>
    /\ duties = <<<<20>>>>
    /\ fan[1]["CPUF"] = 20

----------------------------------------------------------------------------

\* the calls of cycle n as (board, header, duty, result), without the cycle
CallsOf(n) ==
    [k \in 1..Len(CycleWrites(n)) |->
        [io |-> CycleWrites(n)[k].io, device |-> CycleWrites(n)[k].device,
         duty |-> CycleWrites(n)[k].duty, ok |-> CycleWrites(n)[k].ok]]

\* C14: actuation idempotence. Two finished cycles with the same duty d, one
\* after the other or not, have issued the same sequence of calls; a cycle
\* with a duty issues its two calls per board also when every header already
\* applies that duty.
C14_ActuationIdempotence ==
    \A m \in 1..Len(duties) : \A n \in m..Len(duties) :
        CycleDone(m) /\ CycleDone(n) /\ duties[m] = duties[n]
          => /\ CallsOf(m) = CallsOf(n)
             /\ duties[n] # <<>> => Len(CallsOf(n)) = 2 * Len(ios)

\* two boards and two cycles with the duty 100: the second cycle has written
\* the four headers again
C14_Witness ==
    /\ cycle = 2
    /\ pc = "sleep"
    /\ Len(ios) = 2
    /\ duties = <<<<100>>, <<100>>>>
    /\ Len(CycleWrites(1)) = 4
    /\ Len(CycleWrites(2)) = 4

\* write_all and read_line take turns, write_all first
Alternates(log) ==
    \A i \in 1..Len(log) :
        log[i] = IF i % 2 = 1 THEN "write_all" ELSE "read_line"

\* C15: request/response protocol. The calls on the pipes alternate over the
\* whole run, a newline first; cycle n sends its newline as call 2n-1 and
\* reads its line as call 2n before the parse, the push, the lookup and the
\* set_duty calls of that cycle; a newline is sent only when no newline and
\* no line is outstanding, and at most one is outstanding at any time.
C15_RequestResponse ==
    /\ Alternates(pipe_log)
    /\ pc = "trigger"
         => Len(pipe_log) = 2 * cycle /\ wrapper_in = 0 /\ wrapper_out = <<>>
    /\ pc = "read" => Len(pipe_log) = 2 * cycle - 1
    /\ pc \in {"parse", "push", "smooth", "lookup", "set_duty", "sleep",
               "panicked"}
         => Len(pipe_log) = 2 * cycle
    /\ pc \in {"kill", "returned", "exited"} /\ cycle >= 1
         => /\ Len(pipe_log) >= 2 * cycle - 2
            /\ Len(pipe_log) <= 2 * cycle
    /\ wrapper_in + Len(wrapper_out) <= 1
    /\ Len(samples) <= Len(pipe_log) \div 2
    /\ \A i \in 1..Len(writes) : 2 * writes[i].cycle <= Len(pipe_log)

\* the third cycle has sent its newline and read its line
C15_Witness ==
    /\ cycle = 3
    /\ pc = "parse"
    /\ pipe_log = <<"write_all", "read_line", "write_all", "read_line",
                    "write_all", "read_line">>
    /\ Len(produced) = 3
    /\ line = produced[3]

\* driver_loop has built its buffer
LoopStarted == InLoop \/ pc = "panicked" \/ cycle >= 1

\* the last sample pushed into slot j (counted from 0), zero when there is none
SlotSample(j) ==
    LET ks == {k \in 1..Len(samples) : (k - 1) % points_in_spin_down = j}
    IN  IF ks = {} THEN Zero ELSE samples[SetMax(ks)]

\* the state part of C16: the size, the cursor and the content of the buffer
C16_StateInv ==
    LoopStarted
      => /\ Len(recent_temps) = points_in_spin_down
         /\ recent_temps_i \in 0..(points_in_spin_down - 1)
         /\ recent_temps_i = Len(samples) % points_in_spin_down
         /\ \A j \in 0..(points_in_spin_down - 1) :
               recent_temps[j + 1] = SlotSample(j)

\* a step of the loop that pushes writes the slot at the cursor and no other,
\* and a step that does not push leaves the buffer and the cursor alone
C16_PushStep ==
    LoopStarted
      => IF samples' # samples
         THEN /\ Len(samples') = Len(samples) + 1
              /\ recent_temps'
                   = [recent_temps EXCEPT
                        ![recent_temps_i + 1] = samples'[Len(samples')]]
              /\ recent_temps_i' = (recent_temps_i + 1) % points_in_spin_down
         ELSE /\ recent_temps' = recent_temps
              /\ recent_temps_i' = recent_temps_i

\* C16: ring-buffer invariant. In every state of driver_loop the buffer has
\* capacity slots, the cursor is in 0..capacity-1 and is the number of samples
\* pushed modulo the capacity, and a push overwrites the slot at the cursor
\* (the oldest sample once the buffer is full) and leaves the others alone.
C16_RingBuffer ==
    /\ []C16_StateInv
    /\ [][C16_PushStep]_vars

\* the fourth sample has overwritten the first: slot 0 holds it, the slots 1
\* and 2 still hold the second and the third
C16_Witness ==
    /\ Len(samples) = 4
    /\ pc = "smooth"
    /\ recent_temps_i = 1
    /\ samples = <<Temp45_5, Temp90, Temp10, TempMinus5>>
    /\ recent_temps = <<TempMinus5, Temp90, Temp10>>

\* driver_loop has returned
AfterLoop == pc \in {"kill", "returned", "exited"}

\* the state part of C17: where an error of the loop is found, and what has
\* been done by then
C17_StateInv ==
    /\ res \in LoopErrors => AfterLoop /\ cycle >= 1
    /\ pc = "kill" => res \in LoopErrors /\ ENABLED KillWrapper
    /\ res \in LoopErrors /\ pc \in {"returned", "exited"}
         => wrapper \in {"killed", "exited"}
    /\ pc = "returned" => res # "none" /\ ENABLED ServiceExit
    /\ pc = "exited" => res # "none" /\ logged /\ exit_code = 1
    /\ pc # "exited" => ~logged /\ exit_code = -1

\* the step part of C17: the error is handed on as it is, the kill is one
\* call that is not waited for (the subprocess may still answer a newline
\* until then), and nothing of the loop runs again
C17_Step ==
    /\ res # "none" => res' = res
    /\ pc = "kill" /\ pc' # pc => pc' = "returned" /\ wrapper' # "running"
    /\ pc = "returned" => pc' = "exited"
    /\ AfterLoop
         => /\ pc' \in {"kill", "returned", "exited"}
            /\ UNCHANGED <<loopVars, fan>>

\* C17: fatal-error propagation. When driver_loop returns an error, driver
\* calls wrapper.kill() once, without waiting for the subprocess, and returns
\* that error unchanged; service_main logs it and ends the process with exit
\* code 1, and no step of the loop is taken again.
C17_FatalErrorPropagation ==
    /\ []C17_StateInv
    /\ [][C17_Step]_vars

\* a line that is no number in the second cycle: the subprocess was running,
\* has been killed, and the service has logged the error and ended with 1
C17_Witness ==
    /\ res = "Err(InvalidData)"
    /\ cycle = 2
    /\ pc = "exited"
    /\ wrapper = "killed"
    /\ logged
    /\ exit_code = 1

\* the state part of C18: one sleep per finished cycle, none for the cycle
\* that is running or has failed, and the sleep comes when the set_duty calls
\* of the cycle are all issued or were skipped
C18_StateInv ==
    /\ pc = "trigger" => sleeps = cycle
    /\ pc \in {"read", "parse", "push", "smooth", "lookup", "set_duty",
               "sleep", "panicked"}
         => sleeps = cycle - 1
    /\ AfterLoop /\ cycle >= 1 => sleeps = cycle - 1
    /\ pc = "sleep"
         => /\ Len(duties) = cycle
            /\ CycleWrites(cycle)
                 = IF duties[cycle] = <<>> THEN <<>>
                   ELSE FullWrites(cycle, duties[cycle][1])
    /\ \A i \in 1..Len(writes) : writes[i].cycle <= sleeps + 1

\* the step part of C18: the sleep is a step of its own between the last
\* call of a cycle and the next write_all, and while it lasts no newline is
\* sent, no line read and no board written; every call of cycle n is issued
\* after n-1 sleeps
C18_Step ==
    /\ sleeps' # sleeps
         => /\ pc = "sleep" /\ pc' = "trigger"
            /\ sleeps' = sleeps + 1
            /\ UNCHANGED <<writes, fan, pipe_log, wrapper_in, wrapper_out,
                           line, samples, recent_temps, res>>
    /\ pc = "sleep" /\ pc' # pc => sleeps' = sleeps + 1
    /\ writes' # writes
         => sleeps' = sleeps /\ writes'[Len(writes')].cycle = sleeps + 1
    /\ pipe_log' # pipe_log
         => sleeps' = sleeps /\ Len(pipe_log) \div 2 = sleeps

\* C18: cadence ordering. The loop sleeps exactly once per finished cycle,
\* after the set_duty calls of that cycle (or after the skipped actuation)
\* and before the next newline; a cycle that fails ends the loop without a
\* sleep, and no newline, read or set_duty call happens during the sleep.
C18_CadenceOrdering ==
    /\ []C18_StateInv
    /\ [][C18_Step]_vars

\* two cycles have finished and slept, the third has failed in a set_duty
\* call and the service has ended without a third sleep
C18_Witness ==
    /\ cycle = 3
    /\ sleeps = 2
    /\ res = "Err(set_duty)"
    /\ pc = "exited"
    /\ duties[1] = <<>>
    /\ duties[2] # <<>>

\* C19: the smoothed temperature is at least the sample of the same cycle.
\* The maximum computed in cycle k is at least the sample read in cycle k,
\* and at least zero in the first capacity-1 cycles; a sample that is the
\* greatest of its window is the maximum of the very cycle that read it, a
\* sample below the one before it leaves the maximum at or above that one,
\* and the lookup of cycle k is that of this maximum.
C19_SmoothedAtLeastSample ==
    /\ \A k \in 1..Len(smoothed) :
          /\ FLe(samples[k], smoothed[k])
          /\ k < points_in_spin_down => FLe(Zero, smoothed[k])
          /\ (/\ \A j \in Max2(1, k - 2)..k : FLe(samples[j], samples[k])
              /\ k < points_in_spin_down => FLe(Zero, samples[k]))
               => FEq(smoothed[k], samples[k])
          /\ k >= 2 /\ FLt(samples[k], samples[k - 1])
               => FLe(samples[k - 1], smoothed[k])
    /\ \A k \in 1..Len(duties) :
          duties[k] = get_duty(curve, Hundredths(smoothed[k]))

\* a 10 and then a 90: the second cycle already looks up 90 and writes the
\* duty 100
C19_Witness ==
    /\ Len(samples) = 2
    /\ pc = "sleep"
    /\ samples = <<Temp10, Temp90>>
    /\ smoothed = <<Temp10, Temp90>>
    /\ duties = <<<<>>, <<100>>>>
    /\ fan[1]["CPUF"] = 100

====
